---------------------------- MODULE Spec2Model ----------------------------
(***************************************************************************)
(* A model of src/dfa.cpp: the StateDiagram adjacency table, the DFA       *)
(* class with its execute method, and build_dfa_from_file with the text    *)
(* helpers (split, trim, std::stoi) it parses the description with.        *)
(*                                                                         *)
(* Text is modelled as sequences of character codes, so that formatting a  *)
(* description and parsing it back are two different computations.         *)
(***************************************************************************)
EXTENDS Integers, Sequences, FiniteSets, TLC

(***************************************************************************)
(* Program constants.                                                      *)
(***************************************************************************)
\* #define MAXVERT 1000: the adjacency array has MAXVERT+1 slots, 0..MAXVERT.
MAXVERT == 1000

\* The delimiters build_dfa_from_file splits at.
COLON == 58
BAR == 124
SP == 32

\* The largest int, the type of state numbers, weights and counters.
INT_MAX == 2147483647

(***************************************************************************)
(* Bounds of the model.                                                    *)
(***************************************************************************)
\* The longest input string handed to execute.
MaxInputLen == 3
\* The largest number of transition lines in a generated description.
MaxLines == 2

(***************************************************************************)
(* Text helpers.                                                           *)
(***************************************************************************)
\* std::isspace in the "C" locale: space, \t, \n, \v, \f, \r.
isspace(ch) == ch = 32 \/ (ch >= 9 /\ ch <= 13)

isdigit(ch) == ch >= 48 /\ ch <= 57

RECURSIVE splitFrom(_, _, _, _, _)
\* The getline loop of split: `item` collects characters up to the next
\* delimiter; a delimiter ends the item (empty or not); at the end of the
\* text a non-empty item is kept and an empty one is not (getline fails).
splitFrom(s, delim, i, item, elems) ==
    IF i > Len(s)
    THEN IF item = <<>> THEN elems ELSE Append(elems, item)
    ELSE IF s[i] = delim
         THEN splitFrom(s, delim, i + 1, <<>>, Append(elems, item))
         ELSE splitFrom(s, delim, i + 1, Append(item, s[i]), elems)

split(s, delim) == splitFrom(s, delim, 1, <<>>, <<>>)

RECURSIVE ltrim(_)
ltrim(s) ==
    IF s # <<>> /\ isspace(Head(s)) THEN ltrim(Tail(s)) ELSE s

RECURSIVE rtrim(_)
rtrim(s) ==
    IF s # <<>> /\ isspace(s[Len(s)]) THEN rtrim(SubSeq(s, 1, Len(s) - 1)) ELSE s

trim(s) == rtrim(ltrim(s))

trim_copy(s) == trim(s)

RECURSIVE stoiDigits(_, _, _)
\* The digits std::stoi converts, from position i on. The value is collected
\* negated, so that the most negative int is reached without leaving the
\* range: [neg |-> minus the digits' value, n |-> digits read, over |-> the
\* value left the range of int].
stoiDigits(s, i, acc) ==
    IF i <= Len(s) /\ isdigit(s[i])
    THEN LET d    == s[i] - 48
             edge == -(INT_MAX \div 10)
             over == acc.over \/ acc.neg < edge
                       \/ (acc.neg = edge /\ d > (INT_MAX % 10) + 1)
         IN  stoiDigits(s, i + 1,
                        [neg  |-> IF over THEN 0 ELSE acc.neg * 10 - d,
                         n    |-> acc.n + 1,
                         over |-> over])
    ELSE acc

\* std::stoi(str): skips leading whitespace, takes an optional sign and the
\* longest run of decimal digits, ignores what follows; throws
\* std::invalid_argument when there is no digit and std::out_of_range when
\* the value does not fit an int.
stoi(str) ==
    LET body == ltrim(str)
        neg  == body # <<>> /\ body[1] = 45
        sgn  == body # <<>> /\ (body[1] = 45 \/ body[1] = 43)
        from == IF sgn THEN 2 ELSE 1
        r    == stoiDigits(body, from, [neg |-> 0, n |-> 0, over |-> FALSE])
    IN  IF r.n = 0 THEN [kind |-> "invalid_argument"]
        ELSE IF r.over \/ (~neg /\ r.neg < -INT_MAX) THEN [kind |-> "out_of_range"]
        ELSE [kind |-> "value", value |-> IF neg THEN r.neg ELSE -r.neg]

(***************************************************************************)
(* Values of type int. A variable that was never assigned holds an         *)
(* indeterminate value: [known |-> FALSE, value |-> k] stands for "whatever *)
(* the storage held, plus k" (k counts the increments applied since), and   *)
(* a read of it may yield any of the values Reads gives.                    *)
(***************************************************************************)
Known(v) == [known |-> TRUE, value |-> v]

Indeterminate == [known |-> FALSE, value |-> 0]

\* What never-assigned storage can hold: zero (fresh memory) or a leftover.
GarbageInts == {0, 32767}

Reads(x) == IF x.known THEN {x.value} ELSE {g + x.value : g \in GarbageInts}

\* x += 1
Increment(x) == [x EXCEPT !.value = @ + 1]

(***************************************************************************)
(* StateDiagram.                                                           *)
(*                                                                         *)
(* states is std::array<std::vector<pair<int,int>>, MAXVERT+1>. The model   *)
(* keeps the slots that hold a non-empty vector: states is a function from  *)
(* those slot numbers to sequences of <<weight, state>> pairs, and every    *)
(* other slot of 0..MAXVERT holds the empty vector. degree is the same for  *)
(* the slots that were assigned; the others are indeterminate.              *)
(***************************************************************************)
InRange(index) == index >= 0 /\ index <= MAXVERT

\* StateDiagram(): nvertices = 0, nedges = 0, every vector empty.
NewStateDiagram ==
    [states |-> <<>>, degree |-> <<>>, nvertices |-> Known(0), nedges |-> Known(0)]

\* The vector in slot `index` of the array, for an index inside the array.
Slot(states, index) == IF index \in DOMAIN states THEN states[index] ELSE <<>>

\* With f a function, f extended or overwritten at k.
Store(f, k, v) == [i \in DOMAIN f \cup {k} |-> IF i = k THEN v ELSE f[i]]

\* An access outside a container is undefined behaviour. What a build can
\* make of it: the process is killed (a segmentation fault), the standard
\* library throws while it copies what it found there, or the access goes
\* through on whatever lies there. The first two stop the program with the
\* status given.
Stopped(how) == [kind |-> "stopped", status |-> how]

\* What lies past the array when it is read as a vector of pairs: nothing,
\* or the pair (97, 2).
GarbageLists == {<<>>, << <<97, 2>> >>}

\* getState(index): a copy of states[index], with no bounds check.
getState(sd, index) ==
    IF InRange(index)
    THEN {[kind |-> "value", list |-> Slot(sd.states, index)]}
    ELSE {Stopped("crashed"), Stopped("bad_array_new_length")}
         \cup {[kind |-> "value", list |-> g] : g \in GarbageLists}

\* insertEdge(state_no, weight, y): push_back on states[state_no], with no
\* bounds check. Outside 0..MAXVERT the pair, when the write goes through,
\* lands outside the table.
insertEdge(sd, state_no, weight, y) ==
    IF InRange(state_no)
    THEN {[kind |-> "value",
           sd   |-> [sd EXCEPT !.states =
                        Store(@, state_no, Append(Slot(@, state_no), <<weight, y>>))]]}
    ELSE {Stopped("crashed"), [kind |-> "value", sd |-> sd]}

\* state_diagram.degree[state] = degree, with no bounds check.
setDegree(sd, state, degree) ==
    IF InRange(state)
    THEN {[kind |-> "value", sd |-> [sd EXCEPT !.degree = Store(@, state, degree)]]}
    ELSE {Stopped("crashed"), [kind |-> "value", sd |-> sd]}

(***************************************************************************)
(* The state of the program.                                               *)
(***************************************************************************)
VARIABLES
    argc,         \* the argument count main was started with
    exit,         \* what main returned, None until it returns
    file,         \* the description: [readable, lines], lines of character codes
    workload,     \* the input strings callers hand to execute
    char_signed,  \* whether plain char is signed on this build
    status,       \* "started", "building", "built", "exited", "crashed" or the
                  \* exception that ended the process
    build,        \* locals of build_dfa_from_file
    dfa,          \* the DFA object: [state_diagram, q, f]
    call,         \* per thread of control, its execute call
    observed      \* one returned result kept by a caller: [input, result]

vars == <<argc, exit, file, workload, char_signed, status, build, dfa, call, observed>>

Threads == DOMAIN call

None == [kind |-> "none"]

\* DFA(): state_diagram default-constructed, q and f never assigned.
NewDFA == [state_diagram |-> NewStateDiagram, q |-> Indeterminate, f |-> Indeterminate]

\* The locals at the top of build_dfa_from_file; nvertices and nedges are
\* declared without an initializer.
NewBuild ==
    [state_diagram |-> NewStateDiagram, counter |-> 0,
     nvertices |-> Indeterminate, nedges |-> Indeterminate]

Idle == [pc |-> "idle"]

\* The lines std::getline yields: none when the file could not be opened.
Lines == IF file.readable THEN file.lines ELSE <<>>

(***************************************************************************)
(* main, up to the call of build_dfa_from_file.                             *)
(***************************************************************************)
\* The values of the return statements of main: after the usage message,
\* after "Evaluation: True" and after "Evaluation: False".
EXIT_USAGE == 1
EXIT_TRUE == 0
EXIT_FALSE == 1

\* main returned `code` from the return statement `after`.
Exited(code, after) == [kind |-> "exit", code |-> code, after |-> after]

\* if(argc < 3): the usage message, return 1.
MainUsage ==
    /\ status = "started"
    /\ argc < 3
    /\ exit' = Exited(EXIT_USAGE, "usage")
    /\ status' = "exited"
    /\ UNCHANGED <<argc, file, workload, char_signed, build, dfa, call, observed>>

\* argc >= 3: main goes on to build_dfa_from_file(dfa_filename).
MainBuild ==
    /\ status = "started"
    /\ argc >= 3
    /\ status' = "building"
    /\ UNCHANGED <<argc, exit, file, workload, char_signed, build, dfa, call, observed>>

(***************************************************************************)
(* build_dfa_from_file. One action per pass of the while loop; a pass ends  *)
(* with the loop going on, with an exception leaving the function (nothing  *)
(* in the program catches it) or with the process killed.                   *)
(***************************************************************************)
\* What reading an indeterminate std::string can yield: "" or "98 2".
GarbageStrings == {<<>>, <<57, 56, 32, 50>>}

\* v[k] on a std::vector<std::string>, k counted from 0, with no bounds
\* check, and the use of the string read.
At(v, k) ==
    IF k < Len(v)
    THEN {[kind |-> "value", str |-> v[k + 1]]}
    ELSE {Stopped("crashed"), Stopped("logic_error")}
         \cup {[kind |-> "value", str |-> g] : g \in GarbageStrings}

\* How a pass of the loop ends: the status it leaves and the locals.
Goes(b) == [status |-> "building", build |-> b]
Throws(b, exception) == [status |-> exception, build |-> b]
Stops(b, e) == [status |-> e.status, build |-> b]

RECURSIVE pairLoop(_, _, _, _, _)
\* The for loop over adj_list_vector, from its i-th element on, followed by
\* the assignment to state_diagram.degree[state].
pairLoop(b, state, adj_list_vector, i, degree) ==
    IF i > Len(adj_list_vector)
    THEN { IF r.kind = "stopped" THEN Stops(b, r)
           ELSE Goes([b EXCEPT !.state_diagram = r.sd])
           : r \in setDegree(b.state_diagram, state, degree) }
    ELSE LET trimmed_pair == trim_copy(adj_list_vector[i])
             split_pair   == split(trimmed_pair, SP)
             inserted(weight, state_no_y) ==
                 UNION { IF r.kind = "stopped" THEN {Stops(b, r)}
                         ELSE pairLoop([b EXCEPT !.state_diagram = r.sd,
                                                 !.nedges = Increment(@)],
                                       state, adj_list_vector, i + 1, degree + 1)
                         : r \in insertEdge(b.state_diagram, state, weight, state_no_y) }
             second(weight) ==
                 UNION { IF e.kind = "stopped" THEN {Stops(b, e)}
                         ELSE LET y == stoi(e.str)
                              IN  IF y.kind # "value" THEN {Throws(b, y.kind)}
                                  ELSE inserted(weight, y.value)
                         : e \in At(split_pair, 1) }
         IN  UNION { IF e.kind = "stopped" THEN {Stops(b, e)}
                     ELSE LET w == stoi(e.str)
                          IN  IF w.kind # "value" THEN {Throws(b, w.kind)}
                              ELSE second(w.value)
                     : e \in At(split_pair, 0) }

\* The else branch of the loop body: one transition line.
transitionLine(b, str) ==
    LET split_at_colon == split(str, COLON)
        counted == [b EXCEPT !.nvertices = Increment(@)]
        rest(state) ==
            UNION { IF e.kind = "stopped" THEN {Stops(counted, e)}
                    ELSE pairLoop(counted, state, split(e.str, BAR), 1, 0)
                    : e \in At(split_at_colon, 1) }
    IN  UNION { IF e.kind = "stopped" THEN {Stops(b, e)}
                ELSE LET state == stoi(e.str)
                     IN  IF state.kind # "value" THEN {Throws(b, state.kind)}
                         ELSE rest(state.value)
                : e \in At(split_at_colon, 0) }

Building == status = "building"

\* counter == 0: dfa.setInitialState(std::stoi(str)); counter++
ReadInitialLine ==
    /\ Building
    /\ build.counter = 0
    /\ build.counter < Len(Lines)
    /\ LET n == stoi(Lines[build.counter + 1])
       IN  IF n.kind = "value"
           THEN /\ dfa' = [dfa EXCEPT !.q = Known(n.value)]
                /\ build' = [build EXCEPT !.counter = @ + 1]
                /\ UNCHANGED status
           ELSE /\ status' = n.kind
                /\ UNCHANGED <<dfa, build>>
    /\ UNCHANGED <<argc, exit, file, workload, char_signed, call, observed>>

\* ReadFinalLine with the wrong setter: dfa.setInitialState(std::stoi(str)).
ReadFinalLineSettingInitial ==
    /\ Building
    /\ build.counter = 1
    /\ build.counter < Len(Lines)
    /\ LET n == stoi(Lines[build.counter + 1])
       IN  IF n.kind = "value"
           THEN /\ dfa' = [dfa EXCEPT !.q = Known(n.value)]
                /\ build' = [build EXCEPT !.counter = @ + 1]
                /\ UNCHANGED status
           ELSE /\ status' = n.kind
                /\ UNCHANGED <<dfa, build>>
    /\ UNCHANGED <<argc, exit, file, workload, char_signed, call, observed>>

\* counter == 1: dfa.setFinalState(std::stoi(str)); counter++
ReadFinalLine ==
    /\ Building
    /\ build.counter = 1
    /\ build.counter < Len(Lines)
    /\ LET n == stoi(Lines[build.counter + 1])
       IN  IF n.kind = "value"
           THEN /\ dfa' = [dfa EXCEPT !.f = Known(n.value)]
                /\ build' = [build EXCEPT !.counter = @ + 1]
                /\ UNCHANGED status
           ELSE /\ status' = n.kind
                /\ UNCHANGED <<dfa, build>>
    /\ UNCHANGED <<argc, exit, file, workload, char_signed, call, observed>>

\* counter >= 2: a transition line; counter++ when the pass goes through.
ReadTransitionLine ==
    /\ Building
    /\ build.counter >= 2
    /\ build.counter < Len(Lines)
    /\ \E out \in transitionLine(build, Lines[build.counter + 1]) :
          /\ status' = out.status
          /\ build' = IF out.status = "building"
                      THEN [out.build EXCEPT !.counter = @ + 1]
                      ELSE out.build
    /\ UNCHANGED <<argc, exit, file, workload, char_signed, dfa, call, observed>>

\* std::getline fails (end of file, or the file never opened): the counters
\* are copied into state_diagram, the diagram is copied into dfa, and dfa is
\* returned.
BuildReturn ==
    /\ Building
    /\ build.counter >= Len(Lines)
    /\ LET diag == [build.state_diagram EXCEPT !.nvertices = build.nvertices,
                                               !.nedges = build.nedges]
       IN  /\ build' = [build EXCEPT !.state_diagram = diag]
           /\ dfa' = [dfa EXCEPT !.state_diagram = diag]
    /\ status' = "built"
    /\ UNCHANGED <<argc, exit, file, workload, char_signed, call, observed>>

(***************************************************************************)
(* DFA::execute. One action for the entry, one per pass of the loop over    *)
(* the input, one for the final comparison and the return. Beside the       *)
(* locals of execute a call records, for the last symbol consumed, the      *)
(* state it was consumed in (from), the position in the adjacency list of   *)
(* the pair taken (taken, 0 for none), and the number of assignments to     *)
(* current_state so far (nchanges).                                         *)
(***************************************************************************)
\* int(symbol) for a char holding the byte c (0..255): where char is signed
\* the bytes from 128 on are negative.
charToInt(c) == IF char_signed /\ c >= 128 THEN c - 256 ELSE c

RECURSIVE scanLastMatch(_, _, _, _)
\* scan without the break: the loop runs on and a later match overrides an
\* earlier one.
scanLastMatch(curr_adj_list, i, symbol_val, current_state) ==
    IF i > Len(curr_adj_list)
    THEN [current_state |-> current_state, taken |-> 0]
    ELSE LET later == scanLastMatch(curr_adj_list, i + 1, symbol_val, current_state)
         IN  IF later.taken # 0 THEN later
             ELSE IF curr_adj_list[i][1] = symbol_val /\ curr_adj_list[i][2] # current_state
                  THEN [current_state |-> curr_adj_list[i][2], taken |-> i]
                  ELSE later

RECURSIVE scanAnyTarget(_, _, _, _)
\* scan without the test state.second != current_state: the first pair on
\* the symbol is taken, a self-loop included.
scanAnyTarget(curr_adj_list, i, symbol_val, current_state) ==
    IF i > Len(curr_adj_list)
    THEN [current_state |-> current_state, taken |-> 0]
    ELSE IF curr_adj_list[i][1] = symbol_val
         THEN [current_state |-> curr_adj_list[i][2], taken |-> i]
         ELSE scanAnyTarget(curr_adj_list, i + 1, symbol_val, current_state)

RECURSIVE scan(_, _, _, _)
\* The inner loop over curr_adj_list from its i-th pair on: the first pair
\* whose weight is the symbol and whose state differs from the current one
\* is taken, and the loop breaks. `taken` is the position of that pair, 0
\* when the loop ran to the end.
scan(curr_adj_list, i, symbol_val, current_state) ==
    IF i > Len(curr_adj_list)
    THEN [current_state |-> current_state, taken |-> 0]
    ELSE IF curr_adj_list[i][1] = symbol_val /\ curr_adj_list[i][2] # current_state
         THEN [current_state |-> curr_adj_list[i][2], taken |-> i]
         ELSE scan(curr_adj_list, i + 1, symbol_val, current_state)

Running(p) == status = "built" /\ call[p].pc = "running"

\* bool final_state_reached = false; int current_state = q;
Call(p) ==
    /\ status = "built"
    /\ call[p].pc \in {"idle", "returned"}
    /\ \E input \in workload, q \in Reads(dfa.q) :
          call' = [call EXCEPT ![p] =
                      [pc |-> "running", input |-> input, pos |-> 0,
                       current_state |-> q, final_state_reached |-> FALSE,
                       from |-> q, taken |-> 0, nchanges |-> 0]]
    /\ UNCHANGED <<argc, exit, file, workload, char_signed, status, build, dfa, observed>>

\* The call record c after one pass of for(char symbol: input) over the
\* adjacency list curr_adj_list that getState returned.
pass(c, curr_adj_list) ==
    LET symbol_val == charToInt(c.input[c.pos + 1])
        r          == scan(curr_adj_list, 1, symbol_val, c.current_state)
    IN  [c EXCEPT !.pos = @ + 1,
                  !.from = c.current_state,
                  !.current_state = r.current_state,
                  !.taken = r.taken,
                  !.nchanges = IF r.taken # 0 THEN @ + 1 ELSE @]

\* Step with the member q used as the cursor: q = state.second.
StepMovingInitial(p) ==
    /\ Running(p)
    /\ call[p].pos < Len(call[p].input)
    /\ \E got \in getState(dfa.state_diagram, call[p].current_state) :
          IF got.kind = "stopped"
          THEN /\ status' = got.status
               /\ UNCHANGED <<call, dfa>>
          ELSE /\ call' = [call EXCEPT ![p] = pass(call[p], got.list)]
               /\ dfa' = [dfa EXCEPT !.q = Known(pass(call[p], got.list).current_state)]
               /\ UNCHANGED status
    /\ UNCHANGED <<argc, exit, file, workload, char_signed, build, observed>>

\* One pass of for(char symbol: input): getState copies the adjacency list
\* of the current state, the inner loop scans the copy.
Step(p) ==
    /\ Running(p)
    /\ call[p].pos < Len(call[p].input)
    /\ \E got \in getState(dfa.state_diagram, call[p].current_state) :
          IF got.kind = "stopped"
          THEN /\ status' = got.status
               /\ UNCHANGED call
          ELSE /\ call' = [call EXCEPT ![p] = pass(call[p], got.list)]
               /\ UNCHANGED status
    /\ UNCHANGED <<argc, exit, file, workload, char_signed, build, dfa, observed>>

\* Return with the comparison made against q: if(current_state == q).
ReturnComparingInitial(p) ==
    /\ Running(p)
    /\ call[p].pos = Len(call[p].input)
    /\ \E q \in Reads(dfa.q) :
          call' = [call EXCEPT ![p].pc = "returned",
                               ![p].final_state_reached = (call[p].current_state = q)]
    /\ UNCHANGED <<argc, exit, file, workload, char_signed, status, build, dfa, observed>>

\* if(current_state == f) final_state_reached = true; return it.
Return(p) ==
    /\ Running(p)
    /\ call[p].pos = Len(call[p].input)
    /\ \E f \in Reads(dfa.f) :
          call' = [call EXCEPT ![p].pc = "returned",
                               ![p].final_state_reached = (call[p].current_state = f)]
    /\ UNCHANGED <<argc, exit, file, workload, char_signed, status, build, dfa, observed>>

\* A caller keeps the result of a call that returned, to compare later
\* calls on the same input with it.
Observe(p) ==
    /\ status = "built"
    /\ call[p].pc = "returned"
    /\ observed = None
    /\ observed' = [kind |-> "result", input |-> call[p].input,
                    result |-> call[p].final_state_reached]
    /\ UNCHANGED <<argc, exit, file, workload, char_signed, status, build, dfa, call>>

\* if(evaluate) return 0; else return 1; with evaluate the result of a call
\* that returned.
MainReturn(p) ==
    /\ status = "built"
    /\ call[p].pc = "returned"
    /\ exit' = IF call[p].final_state_reached
               THEN Exited(EXIT_TRUE, "true")
               ELSE Exited(EXIT_FALSE, "false")
    /\ status' = "exited"
    /\ UNCHANGED <<argc, file, workload, char_signed, build, dfa, call, observed>>

Next ==
    \/ MainUsage
    \/ MainBuild
    \/ ReadInitialLine
    \/ ReadFinalLine
    \/ ReadTransitionLine
    \/ BuildReturn
    \/ \E p \in Threads : Call(p)
    \/ \E p \in Threads : Step(p)
    \/ \E p \in Threads : Return(p)
    \/ \E p \in Threads : Observe(p)
    \/ \E p \in Threads : MainReturn(p)

(***************************************************************************)
(* Descriptions. A well-formed description is written from its rows in the  *)
(* format the comment of build_dfa_from_file gives,                         *)
(*     <vertex_no>: <weight> <vertex_no> | <weight> <vertex_no> ...         *)
(* and the build parses the text back.                                      *)
(***************************************************************************)
RECURSIVE ToChars(_)
\* The decimal notation of n as character codes, with '-' before a negative.
ToChars(n) ==
    IF n < 0 THEN <<45>> \o ToChars(-n)
    ELSE IF n < 10 THEN <<48 + n>>
    ELSE Append(ToChars(n \div 10), 48 + (n % 10))

RECURSIVE FormatPairs(_)
FormatPairs(pairs) ==
    IF pairs = <<>> THEN <<>>
    ELSE LET one == ToChars(pairs[1][1]) \o <<SP>> \o ToChars(pairs[1][2])
         IN  IF Len(pairs) = 1 THEN one
             ELSE one \o <<SP, BAR, SP>> \o FormatPairs(Tail(pairs))

\* A row is <<source, pairs>>.
FormatLine(row) == ToChars(row[1]) \o <<COLON, SP>> \o FormatPairs(row[2])

FormatFile(q, f, rows) ==
    [readable |-> TRUE,
     lines    |-> <<ToChars(q), ToChars(f)>> \o [i \in 1..Len(rows) |-> FormatLine(rows[i])]]

\* The sequences over S of length at most n.
SeqsUpTo(S, n) == UNION {[1..k -> S] : k \in 0..n}

\* The characters of the evaluated inputs: 'a' and 'b'.
InputChars == {97, 98}

\* Transition tables that between them hold an ordinary automaton, the same
\* symbol twice on one source (with and without a self-loop first), a state
\* whose only match is a self-loop, a target past MAXVERT, a target with no
\* line of its own, one source on two lines, and no transition at all.
ExecTables ==
    { << <<1, << <<97, 2>>, <<98, 3>> >> >>, <<2, << <<97, 1>> >> >>, <<3, << <<98, 1>> >> >> >>,
      << <<1, << <<97, 1>>, <<97, 2>> >> >>, <<2, << <<98, 2>> >> >> >>,
      << <<1, << <<97, 2>>, <<97, 3>>, <<98, 1>> >> >> >>,
      << <<1, << <<98, 2>> >> >>, <<2, << <<98, MAXVERT + 1>>, <<97, 1>> >> >> >>,
      << <<1, << <<97, 2>> >> >>, <<1, << <<97, 3>>, <<98, 2>> >> >> >>,
      << >> }

\* <<initial, accepting>>
ExecHeaders == { <<1, 2>>, <<1, 1>>, <<2, 3>>, <<1, 3>>, <<MAXVERT + 1, 2>> }

ExecFiles == { FormatFile(h[1], h[2], t) : h \in ExecHeaders, t \in ExecTables }

\* The argument counts main is started with: the file name alone, or the
\* file name and the input string.
ArgCounts == {2, 3}

InitWith(files, inputs, threads) ==
    /\ argc \in ArgCounts
    /\ exit = None
    /\ file \in files
    /\ workload = inputs
    /\ char_signed \in BOOLEAN
    /\ status = "started"
    /\ build = NewBuild
    /\ dfa = NewDFA
    /\ call = [p \in threads |-> Idle]
    /\ observed = None

\* One caller, every input of up to MaxInputLen characters, the tables above.
Init == InitWith(ExecFiles, SeqsUpTo(InputChars, MaxInputLen), {1})

Spec == Init /\ [][Next]_vars

\* execute is straight-line code between its loop passes and waits for
\* nothing: a call that can take its next pass, or return, does so.
SpecFair == Spec /\ WF_vars(Step(1)) /\ WF_vars(Return(1))

(***************************************************************************)
(* Two callers of execute on one automaton, their steps interleaved.        *)
(***************************************************************************)
\* The automaton of the comment of build_dfa_from_file with 'a' and 'b' as
\* weights, and one with a target past MAXVERT.
ConcurrentTables ==
    { << <<1, << <<97, 2>>, <<98, 3>> >> >>, <<2, << <<97, 1>> >> >>, <<3, << <<98, 1>> >> >> >>,
      << <<1, << <<98, 2>> >> >>, <<2, << <<98, MAXVERT + 1>>, <<97, 1>> >> >> >> }

ConcurrentHeaders == { <<1, 2>>, <<2, 1>>, <<MAXVERT + 1, 2>> }

ConcurrentFiles ==
    { FormatFile(h[1], h[2], t) : h \in ConcurrentHeaders, t \in ConcurrentTables }

InitConcurrent ==
    InitWith(ConcurrentFiles, SeqsUpTo(InputChars, MaxInputLen - 1), {1, 2})

SpecConcurrent == InitConcurrent /\ [][Next]_vars

(***************************************************************************)
(* Inputs with characters from the upper half of the 8-bit range.           *)
(***************************************************************************)
\* 'a' and the bytes 128 and 255.
ByteChars == {97, 128, 255}

\* Tables with the bytes' ordinal codes as weights, and one whose weights
\* are negative integers.
ByteTables ==
    { << <<1, << <<128, 2>>, <<97, 3>> >> >>, <<2, << <<255, 3>>, <<97, 1>> >> >> >>,
      << <<1, << <<-128, 2>>, <<-1, 3>> >> >>, <<3, << <<97, 1>> >> >> >> }

ByteHeaders == { <<1, 2>>, <<1, 3>> }

ByteFiles == { FormatFile(h[1], h[2], t) : h \in ByteHeaders, t \in ByteTables }

InitBytes == InitWith(ByteFiles, SeqsUpTo(ByteChars, MaxInputLen - 1), {1})

SpecBytes == InitBytes /\ [][Next]_vars

(***************************************************************************)
(* Descriptions for the build: the first two lines from HeaderLines, then   *)
(* up to MaxLines lines drawn from BuildLines, well formed or not; and the  *)
(* descriptions with fewer than two lines.                                  *)
(***************************************************************************)
\* "1 97 2": a transition line with no colon.
NoColonLine == ToChars(1) \o <<SP>> \o ToChars(97) \o <<SP>> \o ToChars(2)

\* "1:": nothing after the colon.
NoPairsLine == ToChars(1) \o <<COLON>>

\* "1: 97": a pair with no target.
NoTargetLine == ToChars(1) \o <<COLON, SP>> \o ToChars(97)

\* "1: x 2": a weight that is no integer.
BadWeightLine == ToChars(1) \o <<COLON, SP, 120, SP>> \o ToChars(2)

\* "1: 97 2 | x": a second pair that is no integer, after a good one.
BadSecondPairLine == FormatLine(<<1, << <<97, 2>> >> >>) \o <<SP, BAR, SP, 120>>

BlankLine == <<>>

MalformedLines ==
    {NoColonLine, NoPairsLine, NoTargetLine, BadWeightLine, BadSecondPairLine, BlankLine}

\* Rows of well-formed transition lines: two for source 1, one for source 2
\* and one for the first source past MAXVERT.
WellFormedRows ==
    { <<1, << <<97, 2>>, <<98, 3>> >> >>,
      <<2, << <<97, 1>> >> >>,
      <<1, << <<98, 2>> >> >>,
      <<MAXVERT + 1, << <<97, 1>> >> >> }

WellFormedLines == { FormatLine(row) : row \in WellFormedRows }

BuildLines == WellFormedLines \cup MalformedLines

\* <<initial, accepting>> of the descriptions whose first two lines are
\* integers.
BuildHeaders == { <<1, 2>>, <<2, 1>> }

\* <<first line, second line>>: "1","2"; "2","1"; "x","2"; "1","".
HeaderLines ==
    { <<ToChars(h[1]), ToChars(h[2])>> : h \in BuildHeaders }
    \cup { <<<<120>>, ToChars(2)>>, <<ToChars(1), <<>>>> }

BuildFiles ==
    { [readable |-> TRUE, lines |-> h \o t] :
        h \in HeaderLines, t \in SeqsUpTo(BuildLines, MaxLines) }
    \cup { [readable |-> TRUE, lines |-> <<>>],
           [readable |-> TRUE, lines |-> <<ToChars(1)>>],
           [readable |-> FALSE, lines |-> <<>>] }

InitBuild == InitWith(BuildFiles, {<<>>, <<97>>}, {1})

SpecBuild == InitBuild /\ [][Next]_vars

(***************************************************************************)
(* Vocabulary of the properties.                                           *)
(***************************************************************************)
\* outgoing(source): the pairs recorded for source, empty when none is.
Outgoing(source) == Slot(dfa.state_diagram.states, source)

\* The calls that have consumed at least one symbol.
Stepped == {p \in Threads : call[p].pc \in {"running", "returned"} /\ call[p].pos >= 1}

Returned == {p \in Threads : call[p].pc = "returned"}

\* The symbol call c consumed last, as execute compares it.
Consumed(c) == charToInt(c.input[c.pos])

\* The positions of list whose symbol is s.
OnSymbol(list, s) == {i \in 1..Len(list) : list[i][1] = s}

\* The positions of list whose symbol is s and whose target is not c.
Matching(list, s, c) == {i \in OnSymbol(list, s) : list[i][2] # c}

Least(S) == CHOOSE i \in S : \A j \in S : i <= j

\* Two pairs of list on symbol s with different targets.
HasDuplicate(list, s) ==
    \E i, j \in OnSymbol(list, s) : i < j /\ list[i][2] # list[j][2]

(***************************************************************************)
(* C1. Whenever execute has returned, it has consumed the whole input and   *)
(* its result is true exactly when the current state it ended in is the     *)
(* accepting state f; on the empty input the result is true exactly when    *)
(* the initial state q is f.                                                *)
(***************************************************************************)
AcceptsIffEndsInFinal ==
    \A p \in Returned :
        LET c == call[p]
        IN  /\ c.pos = Len(c.input)
            /\ c.final_state_reached <=> (dfa.f = Known(c.current_state))
            /\ c.input = <<>> => (c.final_state_reached <=> (dfa.f = dfa.q))

\* A call on a non-empty input that moved and returned true.
AcceptsAfterMoving ==
    \E p \in Returned :
        call[p].input # <<>> /\ call[p].nchanges >= 1 /\ call[p].final_state_reached

(***************************************************************************)
(* C2. For each symbol s consumed in current state c, the new current state *)
(* is the target of the first pair of outgoing(c), in insertion order, with *)
(* symbol s and a target other than c (c itself when there is none), and at *)
(* most one transition is taken per symbol.                                 *)
(***************************************************************************)
MovesToFirstMatch ==
    \A p \in Stepped :
        LET c    == call[p]
            list == Outgoing(c.from)
            hits == Matching(list, Consumed(c), c.from)
        IN  /\ c.nchanges <= c.pos
            /\ IF hits = {}
               THEN c.taken = 0 /\ c.current_state = c.from
               ELSE c.taken = Least(hits) /\ c.current_state = list[Least(hits)][2]

StallsOnMiss ==
    /\ \A p \in Stepped :
          LET c == call[p]
          IN  OnSymbol(Outgoing(c.from), Consumed(c)) = {} =>
                  /\ c.taken = 0 /\ c.current_state = c.from
                  /\ (c.pc = "returned" /\ Len(c.input) = 1) =>
                         (c.final_state_reached <=> (dfa.f = Known(c.from)))
    /\ \A p \in Threads :
          /\ call[p].pc = "running" => status = "built"
          /\ call[p].pc = "returned" => call[p].pos = Len(call[p].input)

(***************************************************************************)
(* C6. execute is total: whatever state numbers the description gave, a     *)
(* call never indexes the table outside 0..MAXVERT and never ends in a      *)
(* crash or an exception; it runs until it returns a boolean.               *)
(***************************************************************************)
ExecuteIsTotal ==
    \A p \in Threads :
        call[p].pc = "running" =>
            /\ status = "built"
            /\ call[p].pos < Len(call[p].input) => InRange(call[p].current_state)

(***************************************************************************)
(* C7. No step taken once the automaton is built (the steps of execute      *)
(* calls) changes the DFA object: the table with every state's outgoing     *)
(* list and its order, the initial state q and the accepting state f stay   *)
(* as construction left them.                                               *)
(***************************************************************************)
ExecuteKeepsAutomaton == [][status = "built" => dfa' = dfa]_vars

\* A call that moved through a non-empty table has returned, after an
\* earlier call's result was kept.
CallsHaveRun ==
    /\ observed # None
    /\ dfa.state_diagram.states # <<>>
    /\ \E p \in Returned : call[p].nchanges >= 1 /\ call[p].input # observed.input

(***************************************************************************)
(* C8. Two execute calls on the same automaton and the same input return    *)
(* the same boolean, whether or not other calls ran in between.             *)
(***************************************************************************)
SameInputSameResult ==
    \A p \in Returned :
        (observed # None /\ observed.input = call[p].input) =>
            call[p].final_state_reached = observed.result

(***************************************************************************)
(* C9. A transition line with no ':' makes the build fail with an error     *)
(* raised for that line: the build does not go past the line, registers     *)
(* nothing from it, does not crash on it and returns no automaton.          *)
(***************************************************************************)
HasColon(line) == \E i \in 1..Len(line) : line[i] = COLON

\* The transition lines already dealt with: those the loop went past, and
\* the one it stopped in.
Handled ==
    {k \in 3..Len(Lines) :
        \/ build.counter >= k
        \/ status \notin {"building", "built"} /\ build.counter = k - 1}

\* The errors the parser raises for text it cannot read (those of std::stoi).
FormatErrors == {"invalid_argument", "out_of_range"}

MissingColonIsAnError ==
    \A k \in Handled :
        (Lines[k] # <<>> /\ ~HasColon(Lines[k])) =>
            status \in FormatErrors /\ build.counter = k - 1

(***************************************************************************)
(* C10. A description with fewer than two lines (an empty or unreadable     *)
(* file included) makes the build fail: an automaton is returned only when  *)
(* both its initial and its accepting state were set from the description.  *)
(***************************************************************************)
ReturnedAutomatonHasHeader ==
    status = "built" => (Len(Lines) >= 2 /\ dfa.q.known /\ dfa.f.known)

(***************************************************************************)
(* C11. For every well-formed description, the automaton the build returns  *)
(* has the integer of line 0 as initial state and the integer of line 1 as  *)
(* accepting state, and the outgoing list of every source state is the      *)
(* pairs of that source's lines, in line order and then left to right:      *)
(* none lost, added or reordered.                                           *)
(***************************************************************************)
RECURSIVE PairsOf(_, _)
\* The pairs the rows give for source, in row order.
PairsOf(rows, source) ==
    IF rows = <<>> THEN <<>>
    ELSE (IF rows[1][1] = source THEN rows[1][2] ELSE <<>>) \o PairsOf(Tail(rows), source)

Sources(rows) == {rows[i][1] : i \in 1..Len(rows)}

BuildKeepsDescription ==
    \A h \in BuildHeaders, rows \in SeqsUpTo(WellFormedRows, MaxLines) :
        (status = "built" /\ file = FormatFile(h[1], h[2], rows)) =>
            /\ dfa.q = Known(h[1])
            /\ dfa.f = Known(h[2])
            /\ \A source \in Sources(rows) \cup 0..3 :
                   Outgoing(source) = PairsOf(rows, source)

(***************************************************************************)
(* C12. insertEdge(source, symbol, target) appends the pair (symbol,        *)
(* target) at the end of source's outgoing list, keeps the pairs already    *)
(* there in their order, takes a symbol the list already holds, and leaves  *)
(* every other state's list as it was: a pass of the build over the line of *)
(* a row, which calls insertEdge once per pair, extends the source's list   *)
(* by the row's pairs and changes no other list.                            *)
(***************************************************************************)
\* The lists of the table under construction.
Under(b, source) == Slot(b.state_diagram.states, source)

InsertEdgeAppends ==
    [][ \A row \in WellFormedRows :
          ( /\ Building /\ build.counter >= 2 /\ build.counter < Len(Lines)
            /\ Lines[build.counter + 1] = FormatLine(row)
            /\ status' = "building" /\ build'.counter = build.counter + 1 )
          => /\ Under(build', row[1]) = Under(build, row[1]) \o row[2]
             /\ \A other \in (0..3 \cup Sources(<<row>>)) \ {row[1]} :
                    Under(build', other) = Under(build, other) ]_vars

(***************************************************************************)
(* C13. A state with no transition line of its own is a sink: a symbol      *)
(* consumed in it leaves the current state there, a call that stands in it  *)
(* is not ended by an error, and a call that returns from it returns true   *)
(* exactly when it is the accepting state.                                  *)
(***************************************************************************)
Undeclared(state) == Outgoing(state) = <<>>

UndeclaredStateIsSink ==
    /\ \A p \in Stepped :
          LET c == call[p]
          IN  Undeclared(c.from) =>
                  /\ c.taken = 0 /\ c.current_state = c.from
                  /\ c.pc = "returned" =>
                         (c.final_state_reached <=> (dfa.f = Known(c.from)))
    /\ \A p \in Threads :
          (call[p].pc = "running" /\ Undeclared(call[p].current_state)) =>
              status \notin {"crashed", "bad_array_new_length"}

(***************************************************************************)
(* C14. The description with the lines "1", "2", "1: 97 2 | 98 3",          *)
(* "2: 97 1", "3: 98 1" builds without an error into an automaton with      *)
(* initial state 1 and accepting state 2, on which execute returns true for *)
(* "a" (ending in 2), true for "ab" (the 'b' stalls in 2), false for "b"    *)
(* (ending in 3) and false for the empty input (staying in 1).              *)
(***************************************************************************)
ScenarioLines ==
    << <<49>>, <<50>>,
       <<49, 58, 32, 57, 55, 32, 50, 32, 124, 32, 57, 56, 32, 51>>,
       <<50, 58, 32, 57, 55, 32, 49>>,
       <<51, 58, 32, 57, 56, 32, 49>> >>

IsScenario == file.readable /\ file.lines = ScenarioLines

\* The ways the program ends other than by returning.
Failures ==
    {"crashed", "logic_error", "bad_array_new_length", "invalid_argument", "out_of_range"}

ScenarioResults ==
    IsScenario =>
        /\ status \notin Failures
        /\ status = "built" => (dfa.q = Known(1) /\ dfa.f = Known(2))
        /\ \A p \in Returned :
              LET c == call[p]
              IN  /\ c.input = <<97>> => (c.final_state_reached /\ c.current_state = 2)
                  /\ c.input = <<97, 98>> =>
                         /\ c.final_state_reached
                         /\ c.from = 2 /\ c.taken = 0 /\ c.current_state = 2
                  /\ c.input = <<98>> => (~c.final_state_reached /\ c.current_state = 3)
                  /\ c.input = <<>> => (~c.final_state_reached /\ c.current_state = 1)

\* On the scenario, "ab" was accepted after the rejection of "b" was kept.
ScenarioHasRun ==
    /\ IsScenario
    /\ observed = [kind |-> "result", input |-> <<98>>, result |-> FALSE]
    /\ \E p \in Returned : call[p].input = <<97, 98>> /\ call[p].final_state_reached

(***************************************************************************)
(* C15. The process outcome is tri-state: main returns 0 after an accepted  *)
(* input and a non-zero code after a rejected one, and what it returns on a *)
(* malformed invocation (missing arguments) or after a format error is a    *)
(* third code, neither the code of an accepted nor that of a rejected       *)
(* input.                                                                   *)
(***************************************************************************)
ExitIsTriState ==
    exit # None =>
        /\ exit.after = "true" => exit.code = 0
        /\ exit.after = "false" => exit.code # 0
        /\ (exit.after = "usage" \/ status \in FormatErrors) =>
               exit.code \notin {EXIT_TRUE, EXIT_FALSE}

(***************************************************************************)
(* C16. With several execute calls running on one built automaton, their    *)
(* steps interleaved in any order, every call that returns returns what the *)
(* call returns when it runs alone, none is cut short by an error of        *)
(* another, and no step changes the table, the initial state or the         *)
(* accepting state the calls share.                                         *)
(***************************************************************************)
RECURSIVE RunAlone(_, _, _)
\* The state a call on input, run alone from `state` at position i, ends in.
RunAlone(input, i, state) ==
    IF i > Len(input) THEN state
    ELSE RunAlone(input, i + 1,
                  scan(Outgoing(state), 1, charToInt(input[i]), state).current_state)

\* What a call on input returns when it runs alone.
Alone(input) == dfa.q.known /\ dfa.f = Known(RunAlone(input, 1, dfa.q.value))

\* Every call that returned agrees with the call run alone, and no call is
\* cut short by the process ending under it.
AgreeWithAlone ==
    /\ \A p \in Returned : call[p].final_state_reached = Alone(call[p].input)
    /\ \A p \in Threads : call[p].pc = "running" => status \notin Failures

ConcurrentCallsAgree ==
    [][ /\ status = "built" => dfa' = dfa
        /\ AgreeWithAlone' ]_vars

(***************************************************************************)
(* C17. execute terminates on every finite input: each pass consumes the    *)
(* next symbol of the input, one at a time and in order, and takes at most  *)
(* one transition, so that the state changes of a call never outnumber the  *)
(* symbols consumed, and a call that was started returns.                   *)
(***************************************************************************)
\* A pass moves the position by one and changes the state at most once.
OneSymbolPerPass ==
    \A p \in Threads :
        (call[p].pc = "running" /\ call'[p] # call[p] /\ call'[p].pc = "running") =>
            /\ call'[p].input = call[p].input
            /\ call'[p].pos = call[p].pos + 1
            /\ call'[p].nchanges \in {call[p].nchanges, call[p].nchanges + 1}

ChangesWithinInput ==
    \A p \in Threads :
        call[p].pc \in {"running", "returned"} =>
            /\ call[p].nchanges <= call[p].pos
            /\ call[p].pos <= Len(call[p].input)

ExecuteTerminates ==
    /\ []ChangesWithinInput
    /\ [][OneSymbolPerPass]_vars
    /\ (call[1].pc = "running") ~> (call[1].pc = "returned")

(***************************************************************************)
(* C18. When the build has finished on a well-formed description, the       *)
(* table's nedges is the number of transitions registered and its nvertices *)
(* the number of distinct source states of the transition lines, both       *)
(* counted from zero, also when a source state has more than one line.      *)
(***************************************************************************)
RECURSIVE Transitions(_)
\* The number of pairs the rows hold.
Transitions(rows) == IF rows = <<>> THEN 0 ELSE Len(rows[1][2]) + Transitions(Tail(rows))

CountersCountTheTable ==
    \A h \in BuildHeaders, rows \in SeqsUpTo(WellFormedRows, MaxLines) :
        (status = "built" /\ file = FormatFile(h[1], h[2], rows)) =>
            /\ \A n \in Reads(dfa.state_diagram.nedges) : n = Transitions(rows)
            /\ \A n \in Reads(dfa.state_diagram.nvertices) : n = Cardinality(Sources(rows))

(***************************************************************************)
(* C19. The build and execute agree on what a symbol is, for every          *)
(* character of the 8-bit range: a character c consumed matches a pair      *)
(* exactly when the pair's weight is c's ordinal code (0..255), and the     *)
(* conversion of the character to the integer that is compared leaves its   *)
(* ordinal code as it is.                                                   *)
(***************************************************************************)
\* The ordinal code of the character call c consumed last.
Ordinal(c) == c.input[c.pos]

SymbolIsOrdinal ==
    \A p \in Stepped :
        LET c    == call[p]
            list == Outgoing(c.from)
            hits == Matching(list, Ordinal(c), c.from)
        IN  /\ Consumed(c) = Ordinal(c)
            /\ c.taken # 0 => list[c.taken][1] = Ordinal(c)
            /\ hits # {} => c.taken = Least(hits)

(***************************************************************************)
(* C20. At every point of every execute call the current state is the       *)
(* initial state or the target of some transition of the table, and every   *)
(* change of the current state goes from a state c to another state t such  *)
(* that (s, t) is a pair of outgoing(c), s being the symbol just consumed.  *)
(***************************************************************************)
\* The targets of the pairs of list.
TargetsOf(list) == {list[i][2] : i \in 1..Len(list)}

\* The targets of the transitions of the table.
Targets == UNION {TargetsOf(Outgoing(source)) : source \in DOMAIN dfa.state_diagram.states}

CurrentStateIsDeclared ==
    /\ \A p \in Threads :
          call[p].pc \in {"running", "returned"} =>
              \/ dfa.q = Known(call[p].current_state)
              \/ call[p].current_state \in Targets
    /\ \A p \in Stepped :
          LET c    == call[p]
              list == Outgoing(c.from)
          IN  /\ c.taken # 0 => c.current_state # c.from
              /\ c.current_state # c.from =>
                     \E i \in 1..Len(list) : list[i] = <<Consumed(c), c.current_state>>

=============================================================================
